---- MODULE Spec2Model ----
(***************************************************************************)
(* A model of src/blocks/api/parser.js: the attribute resolver             *)
(* (parseBlockAttributes, getBlockAttributes), the type and fallback       *)
(* resolver (createBlockWithFallback) and the block list assembler         *)
(* (parseWithGrammar).                                                     *)
(*                                                                         *)
(* JavaScript values are represented as follows.                           *)
(*   - a string of characters (rawContent) is a sequence of one-character  *)
(*     strings, so that String.prototype.trim can be computed;             *)
(*   - a block name is a TLA+ string, UndefinedName standing for an        *)
(*     absent (undefined) name;                                            *)
(*   - a plain object (attributes) is a function from a finite set of keys *)
(*     to values; Undefined stands for an absent object;                   *)
(*   - a call either returns a value or throws: Thrown is the completion   *)
(*     of a call that threw.                                               *)
(***************************************************************************)
EXTENDS Integers, Sequences, FiniteSets, TLC

\* Longest rawContent drawn as an input of the per-call specifications.
MaxLen == 3
\* Longest parse-node sequence drawn as an input of parseWithGrammar.
MaxNodes == 3

VARIABLES
    registry,      \* the registered block types: name -> block type or Undefined
    fallbackName,  \* the configured unknown type handler name, or UndefinedName
    brokenNames,   \* the block names for which createBlock throws
    pc,            \* the position of the call under way
    args,          \* the arguments of the call under way
    ret,           \* the completion of the call, once it has ended
    lookups,       \* the names handed to getBlockType, in call order
    events,        \* the calls of extraction rules and of createBlock, in order
    nodes,         \* grammarParse(content): the parse nodes of the document
    idx,           \* the number of parse nodes the reduce has visited
    memo           \* the reduce accumulator: the blocks pushed so far

vars == <<registry, fallbackName, brokenNames, pc, args, ret, lookups, events,
          nodes, idx, memo>>

-----------------------------------------------------------------------------
(* Values *)

Undefined == [undefined |-> TRUE]
UndefinedName == "undefined"
Null == [null |-> TRUE]
Thrown == [threw |-> TRUE]
NotCalled == [pending |-> TRUE]
EmptyObject == [k \in {} |-> 0]

Chars == {" ", "x"}
Contents == UNION {[1..n -> Chars] : n \in 0..MaxLen}

Keys == {"a", "b"}
Names == {"note", "free"}

\* All plain objects with keys among K and values among V.
Objects(K, V) == UNION {[D -> V] : D \in SUBSET K}

\* Values are tagged by where the input puts them: delimiter attributes hold
\* 2 or 3, default attributes 1, extracted attributes 4.
DelimiterAttrs == Objects(Keys, {2, 3}) \cup {Undefined}
DefaultAttrs == Objects(Keys, {1}) \cup {Undefined}
ExtractedAttrs == Objects(Keys, {4})

-----------------------------------------------------------------------------
(* String.prototype.trim *)

IsSpace(ch) == ch = " "

RECURSIVE TrimStart(_)
TrimStart(s) ==
    IF s # <<>> /\ IsSpace(Head(s)) THEN TrimStart(Tail(s)) ELSE s

RECURSIVE TrimEnd(_)
TrimEnd(s) ==
    IF s # <<>> /\ IsSpace(s[Len(s)])
    THEN TrimEnd(SubSeq(s, 1, Len(s) - 1))
    ELSE s

\* The content handed on as it is, not trimmed.
NoTrim(s) == s
Trim(s) == TrimEnd(TrimStart(s))

\* A string is truthy when it is not empty.
Truthy(s) == s # <<>>

-----------------------------------------------------------------------------
(* Block types *)

\* An extractor function (blockType.attributes as a function).  What it
\* returns may depend on the content it receives: onEmpty for the empty
\* string, onText for any other.  Either may be Thrown.
ExtractorOutcomes == ExtractedAttrs \cup {Thrown}
Extractors ==
    [kind : {"function"}, onEmpty : ExtractorOutcomes, onText : ExtractorOutcomes]

\* An entry of blockType.attributes as a mapping.  wpBlocksKnownMatcher is
\* the _wpBlocksKnownMatcher flag; result is what calling the entry as a
\* matcher gives: a value, or Thrown.
RuleOutcomes == {[value |-> 4], Thrown}
Rules == [wpBlocksKnownMatcher : BOOLEAN, result : RuleOutcomes]
MatcherSets == {[kind |-> "mapping", rules |-> m] : m \in Objects(Keys, Rules)}

NoAttributes == [kind |-> "none"]
AttributeSpecs == {NoAttributes} \cup Extractors \cup MatcherSets

BlockTypes(N, A, D) == [name : N, attributes : A, defaultAttributes : D]

-----------------------------------------------------------------------------
(* Attribute resolver *)

\* Object spread: {...base, ...obj}.  Spreading undefined adds nothing.
Spread(base, obj) ==
    IF obj = Undefined THEN base
    ELSE [k \in DOMAIN base \cup DOMAIN obj |->
            IF k \in DOMAIN obj THEN obj[k] ELSE base[k]]

\* attributes(rawContent), attributes an extractor function.
CallExtractor(attributes, rawContent) ==
    IF Truthy(rawContent) THEN attributes.onText ELSE attributes.onEmpty

\* Every entry picked, flagged or not.
PickAll(attributes) == attributes
\* lodash pickBy(attributes, '_wpBlocksKnownMatcher').
PickBy(attributes) ==
    [k \in {j \in DOMAIN attributes : attributes[j].wpBlocksKnownMatcher} |->
        attributes[k]]

\* hpq parse(rawContent, matchers), matchers a mapping: every matcher is
\* called on the content and its value stored under its key.
HpqParse(rawContent, matchers) ==
    IF \E k \in DOMAIN matchers : matchers[k].result = Thrown
    THEN Thrown
    ELSE [k \in DOMAIN matchers |-> matchers[k].result.value]

ParseBlockAttributes(rawContent, blockType) ==
    LET attributes == blockType.attributes
    IN  IF attributes.kind = "function" THEN CallExtractor(attributes, rawContent)
        ELSE IF attributes.kind = "mapping"
             THEN HpqParse(rawContent, PickBy(attributes.rules))
        ELSE EmptyObject

\* GetBlockAttributes with a failed extraction replaced by no extracted
\* attributes.
GetBlockAttributesSwallowing(blockType, rawContent, attributes) ==
    IF blockType # Undefined
    THEN LET parsed == ParseBlockAttributes(rawContent, blockType)
         IN  Spread(Spread(Spread(EmptyObject, attributes),
                           blockType.defaultAttributes),
                    IF parsed = Thrown THEN EmptyObject ELSE parsed)
    ELSE IF attributes = Undefined THEN EmptyObject ELSE attributes

\* GetBlockAttributes with the spread order of lines 54-55 exchanged.
GetBlockAttributesDefaultsFirst(blockType, rawContent, attributes) ==
    IF blockType # Undefined
    THEN LET parsed == ParseBlockAttributes(rawContent, blockType)
         IN  IF parsed = Thrown THEN Thrown
             ELSE Spread(Spread(Spread(EmptyObject, blockType.defaultAttributes),
                                attributes),
                         parsed)
    ELSE IF attributes = Undefined THEN EmptyObject ELSE attributes

GetBlockAttributes(blockType, rawContent, attributes) ==
    IF blockType # Undefined
    THEN LET parsed == ParseBlockAttributes(rawContent, blockType)
         IN  IF parsed = Thrown THEN Thrown
             ELSE Spread(Spread(Spread(EmptyObject, attributes),
                                blockType.defaultAttributes),
                         parsed)
    ELSE IF attributes = Undefined THEN EmptyObject ELSE attributes

\* The calls of extraction rules that parseBlockAttributes makes, with the
\* content each receives: the extractor function, or hpq's parse with the
\* picked matchers.
ParseBlockAttributesCalls(rawContent, blockType) ==
    LET attributes == blockType.attributes
    IN  IF attributes.kind = "function"
        THEN <<[fn |-> "attributes", rawContent |-> rawContent]>>
        ELSE IF attributes.kind = "mapping"
             THEN <<[fn |-> "hpqParse", rawContent |-> rawContent,
                     matchers |-> DOMAIN PickBy(attributes.rules)]>>
        ELSE <<>>

-----------------------------------------------------------------------------
(* Registry and factory (./registration, ./factory) *)

GetUnknownTypeHandler == fallbackName

GetBlockType(name) ==
    IF name \in DOMAIN registry THEN registry[name] ELSE Undefined

CreateBlock(name, attributes) ==
    IF name \in brokenNames THEN Thrown
    ELSE [name |-> name, attributes |-> attributes]

-----------------------------------------------------------------------------
(* Type and fallback resolver *)

\* Line 73 with its operands exchanged: getUnknownTypeHandler() || name.
FirstNameFallbackPreferred(name) ==
    IF GetUnknownTypeHandler # UndefinedName THEN GetUnknownTypeHandler ELSE name
\* Line 73: name || getUnknownTypeHandler().
FirstName(name) ==
    IF name # UndefinedName THEN name ELSE GetUnknownTypeHandler

\* Line 78 with the second lookup never made, and always made.
NeverFallBack(blockType) == FALSE
AlwaysFallBack(blockType) == TRUE
\* Line 78: the second lookup is made when the first found no type.
FallsBack(blockType) == blockType = Undefined

\* The name (lines 73, 79) and the type (lines 76, 80) the node resolves to.
ResolvedName(name) ==
    IF FallsBack(GetBlockType(FirstName(name)))
    THEN GetUnknownTypeHandler
    ELSE FirstName(name)

ResolvedType(name) ==
    IF FallsBack(GetBlockType(FirstName(name)))
    THEN GetBlockType(GetUnknownTypeHandler)
    ELSE GetBlockType(FirstName(name))

\* The calls of getBlockType, lines 76 and 80.
TypeLookups(name) ==
    IF FallsBack(GetBlockType(FirstName(name)))
    THEN <<FirstName(name), GetUnknownTypeHandler>>
    ELSE <<FirstName(name)>>

\* Line 85 without the test of the content, and without the comparison of
\* the names.
IncludedWhenTyped(blockType, blockName, rawContent, fallbackBlock) ==
    blockType # Undefined
IncludedWhenText(blockType, blockName, rawContent, fallbackBlock) ==
    blockType # Undefined /\ Truthy(Trim(rawContent))
\* Line 85: blockType && (rawContent.trim() || blockName !== fallbackBlock).
Included(blockType, blockName, rawContent, fallbackBlock) ==
    blockType # Undefined
        /\ (Truthy(Trim(rawContent)) \/ blockName # fallbackBlock)

\* The argument of getBlockAttributes at line 91: rawContent.trim().
ContentArgument(rawContent) == Trim(rawContent)

\* createBlockWithFallback: what it returns (a block, Null, or Thrown), the
\* names it looked up and the calls it made.
CreateBlockWithFallback(name, rawContent, attributes) ==
    LET blockName == ResolvedName(name)
        blockType == ResolvedType(name)
        fallbackBlock == GetUnknownTypeHandler
        content == ContentArgument(rawContent)
    IN  IF Included(blockType, blockName, rawContent, fallbackBlock)
        THEN LET attrs == GetBlockAttributes(blockType, content, attributes)
                 resolve == <<[fn |-> "getBlockAttributes", blockType |-> blockType,
                               rawContent |-> content, attributes |-> attributes]>>
                            \o ParseBlockAttributesCalls(content, blockType)
             IN  IF attrs = Thrown
                 THEN [ret |-> Thrown, lookups |-> TypeLookups(name),
                       events |-> resolve]
                 ELSE [ret |-> CreateBlock(blockName, attrs),
                       lookups |-> TypeLookups(name),
                       events |-> resolve \o
                           <<[fn |-> "createBlock", name |-> blockName,
                              attributes |-> attrs]>>]
        ELSE [ret |-> Null, lookups |-> TypeLookups(name), events |-> <<>>]

-----------------------------------------------------------------------------
(* SpecAttrs: the attribute resolver, one call at a time.                  *)

AttrsBlockTypes ==
    BlockTypes({"note"}, AttributeSpecs, DefaultAttrs) \cup {Undefined}

InitAttrs ==
    /\ registry = [n \in Names |-> Undefined]
    /\ fallbackName = UndefinedName
    /\ brokenNames = {}
    /\ pc = "call"
    /\ args \in [blockType : AttrsBlockTypes, rawContent : Contents,
                 attributes : DelimiterAttrs]
    /\ ret = NotCalled
    /\ lookups = <<>>
    /\ events = <<>>
    /\ nodes = <<>>
    /\ idx = 0
    /\ memo = <<>>

CallGetBlockAttributes ==
    /\ pc = "call"
    /\ pc' = "getBlockAttributes"
    /\ ret' = GetBlockAttributes(args.blockType, args.rawContent, args.attributes)
    /\ UNCHANGED <<registry, fallbackName, brokenNames, args, lookups, events,
                   nodes, idx, memo>>

CallParseBlockAttributes ==
    /\ pc = "call"
    /\ args.blockType # Undefined
    /\ pc' = "parseBlockAttributes"
    /\ ret' = ParseBlockAttributes(args.rawContent, args.blockType)
    /\ UNCHANGED <<registry, fallbackName, brokenNames, args, lookups, events,
                   nodes, idx, memo>>

NextAttrs == CallGetBlockAttributes \/ CallParseBlockAttributes

SpecAttrs == InitAttrs /\ [][NextAttrs]_vars

KeysOf(obj) == IF obj = Undefined THEN {} ELSE DOMAIN obj

\* C1: when getBlockAttributes is given a block type and extraction
\* returns, the result's key set is the union of the key sets of the
\* delimiter attributes, the defaultAttributes and the extracted attributes,
\* and each key takes its value from the extracted attributes if it is
\* there, otherwise from defaultAttributes if it is there, otherwise from
\* the delimiter attributes.
C1_MergePrecedence ==
    (pc = "getBlockAttributes" /\ args.blockType # Undefined) =>
        LET extracted == ParseBlockAttributes(args.rawContent, args.blockType)
            defaults == args.blockType.defaultAttributes
            delimiter == args.attributes
        IN  extracted # Thrown =>
              /\ ret # Thrown
              /\ DOMAIN ret =
                    KeysOf(delimiter) \cup KeysOf(defaults) \cup DOMAIN extracted
              /\ \A k \in DOMAIN ret :
                    ret[k] = IF k \in DOMAIN extracted THEN extracted[k]
                             ELSE IF k \in KeysOf(defaults) THEN defaults[k]
                             ELSE delimiter[k]

\* The example of the claim: defaults {a: 1}, delimiter {a: 2, b: 3} and an
\* extractor returning {a: 4} give {a: 4, b: 3}.
C1_Witness ==
    /\ pc = "getBlockAttributes"
    /\ args.blockType # Undefined
    /\ args.blockType.defaultAttributes = [k \in {"a"} |-> 1]
    /\ args.attributes = [k \in {"a", "b"} |-> IF k = "a" THEN 2 ELSE 3]
    /\ args.blockType.attributes.kind = "function"
    /\ ParseBlockAttributes(args.rawContent, args.blockType) = [k \in {"a"} |-> 4]
    /\ ret = [k \in {"a", "b"} |-> IF k = "a" THEN 4 ELSE 3]

TaggedKeys(rules) == {k \in DOMAIN rules : rules[k].wpBlocksKnownMatcher}

\* C7: when blockType.attributes is a mapping, parseBlockAttributes
\* evaluates only the entries that carry the known-matcher flag: it throws
\* only if a flagged entry throws, and otherwise the keys of its result are
\* among the flagged keys; an unflagged entry contributes no key and raises
\* no error.
C7_OnlyKnownMatchers ==
    (pc = "parseBlockAttributes" /\ args.blockType.attributes.kind = "mapping") =>
        LET rules == args.blockType.attributes.rules
        IN  IF \E k \in TaggedKeys(rules) : rules[k].result = Thrown
            THEN ret = Thrown
            ELSE ret # Thrown /\ DOMAIN ret \subseteq TaggedKeys(rules)

\* A mapping with a flagged rule under "a" and an unflagged entry under "b"
\* that would throw if it were called: only "a" is extracted.
C7_Witness ==
    /\ pc = "parseBlockAttributes"
    /\ args.blockType.attributes.kind = "mapping"
    /\ LET rules == args.blockType.attributes.rules
       IN  /\ DOMAIN rules = {"a", "b"}
           /\ rules["a"].wpBlocksKnownMatcher /\ rules["a"].result # Thrown
           /\ ~rules["b"].wpBlocksKnownMatcher /\ rules["b"].result = Thrown
    /\ ret = [k \in {"a"} |-> 4]

-----------------------------------------------------------------------------
(* SpecNode: createBlockWithFallback, one parse node at a time.            *)

MatcherSetExample ==
    [kind |-> "mapping",
     rules |-> [k \in Keys |->
                  IF k = "a"
                  THEN [wpBlocksKnownMatcher |-> TRUE, result |-> [value |-> 4]]
                  ELSE [wpBlocksKnownMatcher |-> FALSE, result |-> Thrown]]]

NodeAttributeSpecs ==
    { NoAttributes,
      [kind |-> "function", onEmpty |-> Thrown, onText |-> [k \in {"a"} |-> 4]],
      MatcherSetExample }

NodeDefaultAttrs == {Undefined, [k \in {"a"} |-> 1]}

NodeDelimiterAttrs ==
    {Undefined, [k \in {"b"} |-> 3], [k \in {"a", "b"} |-> IF k = "a" THEN 2 ELSE 3]}

\* Every registry in which a registered type carries the name it is
\* registered under.
Registries(A, D) ==
    {r \in [Names -> BlockTypes(Names, A, D) \cup {Undefined}] :
        \A n \in Names : r[n] # Undefined => r[n].name = n}

InitNode ==
    /\ registry \in Registries(NodeAttributeSpecs, NodeDefaultAttrs)
    /\ fallbackName \in Names \cup {UndefinedName}
    /\ brokenNames \in {{}, Names}
    /\ pc = "call"
    /\ args \in [name : Names \cup {UndefinedName}, rawContent : Contents,
                 attributes : NodeDelimiterAttrs]
    /\ ret = NotCalled
    /\ lookups = <<>>
    /\ events = <<>>
    /\ nodes = <<>>
    /\ idx = 0
    /\ memo = <<>>

CallCreateBlockWithFallback ==
    /\ pc = "call"
    /\ LET call == CreateBlockWithFallback(args.name, args.rawContent, args.attributes)
       IN  /\ ret' = call.ret
           /\ lookups' = call.lookups
           /\ events' = call.events
    /\ pc' = "createBlockWithFallback"
    /\ UNCHANGED <<registry, fallbackName, brokenNames, args, nodes, idx, memo>>

NextNode == CallCreateBlockWithFallback

SpecNode == InitNode /\ [][NextNode]_vars

\* What the claims call a registered name, the name a node resolves to, and
\* a block.
Registered(n) == n \in Names /\ registry[n] # Undefined
DeclaredOrFallback(n) == IF n = UndefinedName THEN fallbackName ELSE n
ExpectedName(n) ==
    IF Registered(DeclaredOrFallback(n)) THEN DeclaredOrFallback(n) ELSE fallbackName
IsBlock(b) == DOMAIN b = {"name", "attributes"}
Returned == pc = "createBlockWithFallback" /\ ret # Thrown
Blank(s) == \A i \in 1..Len(s) : s[i] = " "

\* C2: a call of createBlockWithFallback that returns yields no block if
\* and only if the resolved type is absent, or the trimmed rawContent is
\* empty and the resolved name equals the fallback name; otherwise it yields
\* one block.
C2_SuppressionRule ==
    Returned =>
        /\ ret = Null <=>
              \/ ~Registered(ExpectedName(args.name))
              \/ Blank(args.rawContent) /\ ExpectedName(args.name) = fallbackName
        /\ ret # Null => IsBlock(ret)

\* An explicit section whose declared name equals the fallback name and
\* whose content is whitespace only is suppressed.
C2_Witness ==
    /\ pc = "createBlockWithFallback"
    /\ args.name # UndefinedName
    /\ args.name = fallbackName
    /\ Registered(args.name)
    /\ args.rawContent = <<" ", " ">>
    /\ ret = Null

\* C3 as claimed: a section with a declared name, resolved without the
\* unknown-type fallback, whose content is empty or whitespace only still
\* produces one block.
C3_Original ==
    (Returned /\ args.name # UndefinedName /\ Registered(args.name)
        /\ Blank(args.rawContent)) => IsBlock(ret)

\* C3 as amended: a section whose declared name is registered and differs
\* from the fallback name produces one block of that name even when its
\* content is empty or whitespace only; a node whose type was determined is
\* discarded only when its content is blank and its resolved name equals
\* the fallback name, declared explicitly or not.
C3_NamedBlankKept ==
    /\ (Returned /\ args.name # UndefinedName /\ Registered(args.name)
          /\ args.name # fallbackName /\ Blank(args.rawContent))
        => (IsBlock(ret) /\ ret.name = args.name)
    /\ (Returned /\ ret = Null /\ Registered(ExpectedName(args.name)))
        => (Blank(args.rawContent) /\ ExpectedName(args.name) = fallbackName)

C3_Witness ==
    /\ pc = "createBlockWithFallback"
    /\ args.name = "note"
    /\ Registered("note")
    /\ fallbackName = "free"
    /\ Registered("free")
    /\ args.rawContent = <<" ">>
    /\ IsBlock(ret)
    /\ ret.name = "note"

\* C4 as claimed: a section whose declared name has no registered type,
\* when a fallback type is registered, produces one block named after the
\* fallback whose attributes are resolved against the fallback type.
C4_Original ==
    (Returned /\ args.name # UndefinedName /\ ~Registered(args.name)
        /\ Registered(fallbackName))
    => /\ IsBlock(ret)
       /\ ret.name = fallbackName
       /\ ret.attributes = GetBlockAttributes(registry[fallbackName],
                                Trim(args.rawContent), args.attributes)

\* C4 as amended: the same, for a section whose trimmed content is not
\* empty.
C4_UnknownNameFallsBack ==
    (Returned /\ args.name # UndefinedName /\ ~Registered(args.name)
        /\ Registered(fallbackName) /\ ~Blank(args.rawContent))
    => /\ IsBlock(ret)
       /\ ret.name = fallbackName
       /\ ret.attributes = GetBlockAttributes(registry[fallbackName],
                                Trim(args.rawContent), args.attributes)

C4_Witness ==
    /\ pc = "createBlockWithFallback"
    /\ args.name = "note"
    /\ ~Registered("note")
    /\ fallbackName = "free"
    /\ Registered("free")
    /\ registry["free"].defaultAttributes # Undefined
    /\ args.rawContent = <<" ", "x", " ">>
    /\ args.attributes # Undefined
    /\ IsBlock(ret)
    /\ ret.name = "free"
    /\ ret.attributes = [k \in {"a", "b"} |-> IF k = "a" THEN 1 ELSE 3]

\* C6: for a node whose declared name is present and registered, the only
\* lookup is of the declared name, attribute resolution is given the type
\* registered under the declared name, and createBlock is given the declared
\* name, whatever the fallback name is and whether or not it is registered.
C6_DeclaredNamePreferred ==
    (pc = "createBlockWithFallback" /\ args.name # UndefinedName
        /\ Registered(args.name))
    => /\ lookups = <<args.name>>
       /\ \A i \in 1..Len(events) :
            /\ events[i].fn = "getBlockAttributes"
                 => events[i].blockType = registry[args.name]
            /\ events[i].fn = "createBlock" => events[i].name = args.name
       /\ (ret # Thrown /\ ret # Null) => ret.name = args.name
       /\ (ret # Null) => events # <<>>

C6_Witness ==
    /\ pc = "createBlockWithFallback"
    /\ args.name = "note"
    /\ Registered("note")
    /\ fallbackName = "free"
    /\ Registered("free")
    /\ registry["free"] # [registry["note"] EXCEPT !.name = "free"]
    /\ Len(events) >= 2
    /\ IsBlock(ret)
    /\ ret.name = "note"

\* C8: type resolution for one node makes one or two registry lookups and
\* ends: the first of the declared name (of the fallback name if none is
\* declared), the second, made only if the first found no type, of the
\* fallback name; if the second finds no type either the node yields no
\* block and nothing more is called.
C8_AtMostTwoLookups ==
    /\ pc = "call" => ENABLED CallCreateBlockWithFallback
    /\ pc = "createBlockWithFallback" =>
        /\ Len(lookups) \in {1, 2}
        /\ lookups[1] = DeclaredOrFallback(args.name)
        /\ Len(lookups) = 2 <=> ~Registered(lookups[1])
        /\ Len(lookups) = 2 => lookups[2] = fallbackName
        /\ (Len(lookups) = 2 /\ ~Registered(fallbackName))
             => (ret = Null /\ events = <<>>)

\* A declared name that is not registered, with a fallback name that is set
\* and not registered either.
C8_Witness ==
    /\ pc = "createBlockWithFallback"
    /\ args.name = "note"
    /\ fallbackName = "free"
    /\ ~Registered("note")
    /\ ~Registered("free")
    /\ lookups = <<"note", "free">>
    /\ ret = Null

-----------------------------------------------------------------------------
(* SpecParse: parseWithGrammar, one reduce callback at a time.             *)

ParseContents == {<<>>, <<" ">>, <<" ", "x">>}

\* The parse nodes of the grammar: a freeform span has no blockType and
\* empty attrs, a structured section has a block name and attrs.
ParseNodes ==
    [blockType : {UndefinedName}, rawContent : ParseContents, attrs : {EmptyObject}]
    \cup [blockType : Names, rawContent : ParseContents, attrs : {[k \in {"b"} |-> 3]}]

\* "note" is unregistered, plain, or has an extractor that throws on text;
\* "free" is unregistered or has a mapping of matcher rules.
ParseRegistries ==
    {r \in Registries(
              {NoAttributes, MatcherSetExample,
               [kind |-> "function", onEmpty |-> [k \in {"a"} |-> 4], onText |-> Thrown]},
              {Undefined}) :
        /\ r["note"] # Undefined => r["note"].attributes.kind \in {"none", "function"}
        /\ r["free"] # Undefined => r["free"].attributes.kind = "mapping"}

InitParse ==
    /\ registry \in ParseRegistries
    /\ fallbackName \in Names \cup {UndefinedName}
    /\ brokenNames \in {{}, {"note"}}
    /\ pc = "reduce"
    /\ args = Undefined
    /\ ret = NotCalled
    /\ lookups = <<>>
    /\ events = <<>>
    /\ nodes \in UNION {[1..n -> ParseNodes] : n \in 0..MaxNodes}
    /\ idx = 0
    /\ memo = <<>>

\* Lines 109-111 without the test of the block.
PushAlways(list, block) == Append(list, block)
\* Lines 109-111: if (block) memo.push(block).
Push(list, block) == IF block # Null THEN Append(list, block) ELSE list

\* The calls made for one node, each with the position of the node.
OfNode(i, calls) == [j \in 1..Len(calls) |-> [node |-> i, call |-> calls[j]]]

\* Lines 106-113: the reduce callback on the next parse node.  A call that
\* throws ends the reduce: nothing is returned to the caller.
ReduceCallback ==
    /\ pc = "reduce"
    /\ idx < Len(nodes)
    /\ LET blockNode == nodes[idx + 1]
           call == CreateBlockWithFallback(blockNode.blockType, blockNode.rawContent,
                                           blockNode.attrs)
       IN  /\ lookups' = lookups \o call.lookups
           /\ events' = events \o OfNode(idx + 1, call.events)
           /\ IF call.ret = Thrown
              THEN /\ pc' = "threw"
                   /\ ret' = Thrown
                   /\ UNCHANGED <<idx, memo>>
              ELSE /\ memo' = Push(memo, call.ret)
                   /\ idx' = idx + 1
                   /\ UNCHANGED <<pc, ret>>
    /\ UNCHANGED <<registry, fallbackName, brokenNames, args, nodes>>

\* Line 106: the reduce returns its accumulator after the last node.
ReduceReturn ==
    /\ pc = "reduce"
    /\ idx = Len(nodes)
    /\ pc' = "returned"
    /\ ret' = memo
    /\ UNCHANGED <<registry, fallbackName, brokenNames, args, lookups, events,
                   nodes, idx, memo>>

NextParse == ReduceCallback \/ ReduceReturn

SpecParse == InitParse /\ [][NextParse]_vars

\* What the claims call a suppressed node, and the positions of the nodes
\* that are not suppressed.
SuppressedNode(n) ==
    \/ ~Registered(ExpectedName(n.blockType))
    \/ Blank(n.rawContent) /\ ExpectedName(n.blockType) = fallbackName
Surviving == {i \in 1..Len(nodes) : ~SuppressedNode(nodes[i])}
Rank(i) == Cardinality({k \in Surviving : k <= i})
ExpectedAttributes(n) ==
    GetBlockAttributes(registry[ExpectedName(n.blockType)], Trim(n.rawContent),
                       n.attrs)

\* C5: the list parseWithGrammar returns holds one block for each parse
\* node that is not suppressed and nothing else, in the order of the nodes:
\* its length is the number of such nodes, its j-th entry is the block of
\* the j-th such node, and no entry is null; while the reduce runs, the
\* accumulator holds the blocks of the surviving nodes visited so far.
C5_OrderedSurvivors ==
    /\ pc = "reduce" => Len(memo) = Rank(idx)
    /\ pc = "returned" =>
        /\ Len(ret) = Cardinality(Surviving)
        /\ \A j \in 1..Len(ret) : ret[j] # Null /\ IsBlock(ret[j])
        /\ \A i \in Surviving :
            /\ ret[Rank(i)].name = ExpectedName(nodes[i].blockType)
            /\ ret[Rank(i)].attributes = ExpectedAttributes(nodes[i])

\* Two explicit sections with whitespace between them: the list holds
\* exactly the two blocks.
C5_Witness ==
    /\ pc = "returned"
    /\ fallbackName = "free"
    /\ Registered("free")
    /\ Len(nodes) = 3
    /\ nodes[1].blockType = "note"
    /\ nodes[2].blockType = UndefinedName
    /\ nodes[2].rawContent = <<" ">>
    /\ nodes[3].blockType = "free"
    /\ nodes[3].rawContent = <<" ", "x">>
    /\ Len(ret) = 2
    /\ ret[1].name = "note"
    /\ ret[2].name = "free"

\* The calls logged for the node at position i, in order.
CallsOf(i) ==
    LET RECURSIVE Pick(_)
        Pick(k) ==
            IF k = 0 THEN <<>>
            ELSE IF events[k].node = i THEN Append(Pick(k - 1), events[k].call)
            ELSE Pick(k - 1)
    IN  Pick(Len(events))

IsExtraction(c) == c.fn \in {"attributes", "hpqParse"}
ExternalCallsOf(i) ==
    SelectSeq(CallsOf(i), LAMBDA c : IsExtraction(c) \/ c.fn = "createBlock")
HasExtraction(n) ==
    registry[ExpectedName(n.blockType)].attributes.kind \in {"function", "mapping"}

\* What C9 expects to be called for a surviving node: its extraction rules,
\* if its type has any, on the trimmed content, then createBlock with the
\* resolved name and the resolved attributes of the node.
ExpectedExtraction(n) ==
    LET spec == registry[ExpectedName(n.blockType)].attributes
    IN  IF spec.kind = "function"
        THEN <<[fn |-> "attributes", rawContent |-> Trim(n.rawContent)]>>
        ELSE IF spec.kind = "mapping"
        THEN <<[fn |-> "hpqParse", rawContent |-> Trim(n.rawContent),
                matchers |-> TaggedKeys(spec.rules)]>>
        ELSE <<>>
ExpectedConstruction(n) ==
    <<[fn |-> "createBlock", name |-> ExpectedName(n.blockType),
       attributes |-> ExpectedAttributes(n)]>>

\* C9: in any run of parseWithGrammar the extraction rules and createBlock
\* are called only for nodes that are not suppressed, once per such node and
\* in document order; extraction receives the trimmed rawContent and
\* createBlock the resolved name and attributes of the same node.  The node
\* on which the run threw has its calls up to the one that threw; no node
\* after the one under way has any.
C9_CallsPerSurvivor ==
    /\ \A k \in 1..Len(events) :
        /\ events[k].node \in Surviving
        /\ events[k].node <= idx + 1
        /\ k > 1 => events[k - 1].node <= events[k].node
    /\ \A i \in Surviving :
        /\ i <= idx =>
             ExternalCallsOf(i) =
                ExpectedExtraction(nodes[i]) \o ExpectedConstruction(nodes[i])
        /\ (i = idx + 1 /\ pc = "threw") =>
             ExternalCallsOf(i) =
                ExpectedExtraction(nodes[i]) \o
                    (IF ExpectedAttributes(nodes[i]) = Thrown THEN <<>>
                     ELSE ExpectedConstruction(nodes[i]))
        /\ (i = idx + 1 /\ pc # "threw") => ExternalCallsOf(i) = <<>>

\* A run over a suppressed node and two surviving ones, the second with
\* leading whitespace handed trimmed to its extraction rules.
C9_Witness ==
    /\ pc = "returned"
    /\ Len(nodes) = 3
    /\ Surviving = {1, 3}
    /\ nodes[3].rawContent = <<" ", "x">>
    /\ HasExtraction(nodes[3])
    /\ Len(events) >= 5
    /\ \E k \in 1..Len(events) :
          /\ events[k].node = 3
          /\ IsExtraction(events[k].call)
          /\ events[k].call.rawContent = <<"x">>

\* Whether processing the node raises: its extraction rules throw, or
\* createBlock throws for its resolved name.
Raises(n) ==
    /\ ~SuppressedNode(n)
    /\ \/ ParseBlockAttributes(Trim(n.rawContent),
                                registry[ExpectedName(n.blockType)]) = Thrown
       \/ ExpectedName(n.blockType) \in brokenNames

\* C10: if extraction or createBlock raises on a node, parseWithGrammar
\* ends in that error: the reduce never goes past such a node, a run that
\* returns a list met none, and a run that threw did so on the first such
\* node, returns no list and makes no further step.
C10_ErrorsAbortParse ==
    /\ \A i \in 1..idx : ~Raises(nodes[i])
    /\ pc = "returned" => \A i \in 1..Len(nodes) : ~Raises(nodes[i])
    /\ pc = "threw" =>
        /\ idx < Len(nodes)
        /\ Raises(nodes[idx + 1])
        /\ ret = Thrown
        /\ \A k \in 1..Len(events) : events[k].node <= idx + 1
        /\ ~ENABLED NextParse

\* A run that threw on its second node, after a block for the first, with
\* a third node left.
C10_Witness ==
    /\ pc = "threw"
    /\ idx = 1
    /\ memo # <<>>
    /\ Len(nodes) = 3
    /\ ~SuppressedNode(nodes[3])
    /\ ret = Thrown

====
